---- MODULE Spec2Model ----
(***************************************************************************)
(* SciTok (src/app/page.tsx): the feed buffer, the fetch and cache         *)
(* manager, the term ranking and the preference store of SciTokApp.        *)
(*                                                                         *)
(* React state is modelled by the values of the last committed render.     *)
(* An event handler, the batched state updates it queues and the commit    *)
(* that follows are one step; the effects whose dependencies that commit   *)
(* changed run in the step RunEffects, before any other event is handled   *)
(* (pendingEffects # {} disables every other action).  An async            *)
(* fetchArticles execution is a record in inflight: it carries the values  *)
(* its closure captured (usedCacheKeys, cache, the recommended terms) and  *)
(* runs from one await to the next in a single step.  An exception that    *)
(* leaves an effect or a render sets error: React removes the component    *)
(* and only executions already in flight run on.  localStorage is the      *)
(* durable store; Reload starts a new session on it.                       *)
(***************************************************************************)
EXTENDS Integers, Sequences, FiniteSets, TLC

\* ------------------------------------------------------------------ bounds
MaxFetches == 3        \* fetchArticles calls in one session
MaxDraws == 2          \* distinct (term, offset) draws of Math.random() explored
MaxScore == 3          \* a like is explored while no topic score exceeds this
MaxMarked == 2         \* a like or a save is explored while the liked and the
                       \* saved articles are, together, no more than this

\* ------------------------------------------------------- program constants
maxAttempts == 3
LoadMoreThreshold == 3
TopTopics == 5
MinAbstractLength == 100
TouchThreshold == 50

\* ------------------------------------------------------------------ text
\* A string is a sequence of one-character strings.
UpperCase == <<"A","B","C","D","E","F","G","H","I","J","K","L","M",
               "N","O","P","Q","R","S","T","U","V","W","X","Y","Z">>
LowerCase == <<"a","b","c","d","e","f","g","h","i","j","k","l","m",
               "n","o","p","q","r","s","t","u","v","w","x","y","z">>

ToLowerChar(c) ==
  IF \E i \in 1..Len(UpperCase) : UpperCase[i] = c
  THEN LowerCase[CHOOSE i \in 1..Len(UpperCase) : UpperCase[i] = c]
  ELSE c

\* String.prototype.toLowerCase
ToLowerCase(s) == [i \in 1..Len(s) |-> ToLowerChar(s[i])]

\* String.prototype.includes
Includes(text, term) ==
  \E i \in 0..(Len(text) - Len(term)) :
    \A j \in 1..Len(term) : text[i + j] = term[j]

SEARCH_TERMS ==
  << "science", "biology", "ai", "data", "physics", "chemistry", "technology",
     "research", "machine learning", "neuroscience", "mathematics",
     "computer science", "psychology", "medicine", "engineering" >>

\* The characters of each search term.
TermChars(term) ==
  CASE term = "science" -> <<"s","c","i","e","n","c","e">>
    [] term = "biology" -> <<"b","i","o","l","o","g","y">>
    [] term = "ai" -> <<"a","i">>
    [] term = "data" -> <<"d","a","t","a">>
    [] term = "physics" -> <<"p","h","y","s","i","c","s">>
    [] term = "chemistry" -> <<"c","h","e","m","i","s","t","r","y">>
    [] term = "technology" -> <<"t","e","c","h","n","o","l","o","g","y">>
    [] term = "research" -> <<"r","e","s","e","a","r","c","h">>
    [] term = "machine learning" ->
         <<"m","a","c","h","i","n","e"," ","l","e","a","r","n","i","n","g">>
    [] term = "neuroscience" ->
         <<"n","e","u","r","o","s","c","i","e","n","c","e">>
    [] term = "mathematics" ->
         <<"m","a","t","h","e","m","a","t","i","c","s">>
    [] term = "computer science" ->
         <<"c","o","m","p","u","t","e","r"," ","s","c","i","e","n","c","e">>
    [] term = "psychology" -> <<"p","s","y","c","h","o","l","o","g","y">>
    [] term = "medicine" -> <<"m","e","d","i","c","i","n","e">>
    [] term = "engineering" ->
         <<"e","n","g","i","n","e","e","r","i","n","g">>

\* ------------------------------------------------------- provider catalogue
Filler(n) == [i \in 1..n |-> "x"]
WithLength(core, n) == core \o Filler(n - Len(core))

PaperNames ==
  { "ai", "bio", "brain", "many", "exact100", "short", "brief", "untitled",
    "noabstract", "twin", "anon" }

\* The papers the search provider may return: paperId ("" when the provider
\* supplies none), title and abstract (<<>> when missing or empty).
PaperData(name) ==
  CASE name = "ai" ->
         [paperId |-> "p1", title |-> <<"A","I">>,
          abstract |-> Filler(MinAbstractLength + 1)]
    [] name = "bio" ->
         [paperId |-> "p2", title |-> <<"B","i","o","l","o","g","y">>,
          abstract |-> Filler(MinAbstractLength + 1)]
    [] name = "brain" ->
         [paperId |-> "p3", title |-> <<"D","a","t","a">>,
          abstract |-> WithLength(<<"B","r","a","i","n"," ">>, 120)]
    [] name = "many" ->
         [paperId |-> "p4", title |-> <<"M","a","c","h","i","n","e">>,
          abstract |-> WithLength(
            <<"l","e","a","r","n","i","n","g"," ",
              "n","e","u","r","o","s","c","i","e","n","c","e"," ",
              "p","h","y","s","i","c","s"," ",
              "c","h","e","m","i","s","t","r","y"," ",
              "m","e","d","i","c","i","n","e"," ">>, 130)]
    [] name = "exact100" ->
         [paperId |-> "s1", title |-> <<"E","d","g","e">>,
          abstract |-> Filler(MinAbstractLength)]
    [] name = "short" ->
         [paperId |-> "s2", title |-> <<"S","h","o","r","t">>,
          abstract |-> Filler(60)]
    [] name = "brief" ->
         [paperId |-> "s3", title |-> <<"B","r","i","e","f">>,
          abstract |-> Filler(99)]
    [] name = "untitled" ->
         [paperId |-> "n1", title |-> <<>>,
          abstract |-> Filler(MinAbstractLength + 1)]
    [] name = "noabstract" ->
         [paperId |-> "n2", title |-> <<"N","o","n","e">>, abstract |-> <<>>]
    [] name = "twin" ->
         [paperId |-> "p1", title |-> <<"P","h","y","s","i","c","s">>,
          abstract |-> Filler(MinAbstractLength + 1)]
    [] name = "anon" ->
         [paperId |-> "", title |-> <<"M","e","d","i","c","i","n","e">>,
          abstract |-> Filler(MinAbstractLength + 1)]

Papers == [name \in PaperNames |-> PaperData(name)]

Paper(name) == Papers[name]

\* data.data of the successful provider responses explored.
Responses ==
  { <<>>,
    <<"ai", "bio">>,
    <<"brain", "short", "many", "brief", "bio">>,
    <<"exact100", "untitled", "noabstract">>,
    <<"ai", "twin">>,
    <<"anon", "ai">> }

\* A provider call ends in a failure (fetch or response.json() throws) or in
\* a response.
ProviderOutcomes ==
  {[ok |-> FALSE, data |-> <<>>]} \cup {[ok |-> TRUE, data |-> r] : r \in Responses}

\* ------------------------------------------------------------- fetched data
\* paper.paperId || `${Date.now()}-${Math.random()}`: the n-th synthesized id
\* is fresh.
ArticleId(paperId, n) == IF paperId # "" THEN <<paperId, 0>> ELSE <<"", n>>

\* An Article is kept as its id and the name of the paper it was mapped from;
\* title and abstract are the paper's.
ArticleTitle(a) == Paper(a.paper).title
ArticleAbstract(a) == Paper(a.paper).abstract

\* The filter with >= in place of >.
PaperQualifies_AtLeast(p) ==
  /\ Len(p.abstract) > 0
  /\ Len(p.title) > 0
  /\ Len(p.abstract) >= MinAbstractLength

\* paper.abstract && paper.title && paper.abstract.length > 100
PaperQualifies(p) ==
  /\ Len(p.abstract) > 0
  /\ Len(p.title) > 0
  /\ Len(p.abstract) > MinAbstractLength

\* PaperQualifies of every paper of the catalogue.
Qualifying == [name \in PaperNames |-> PaperQualifies(Paper(name))]

\* Papers of data that need a synthesized id.
NeedsSynth(data) ==
  Cardinality({i \in 1..Len(data) :
                 Qualifying[data[i]] /\ Paper(data[i]).paperId = ""})

\* data.data.filter(...).map(...), the n-th synthesized id being the next one.
RECURSIVE FetchedArticles(_, _)
FetchedArticles(data, n) ==
  IF data = <<>> THEN <<>>
  ELSE LET p == Paper(Head(data)) IN
       IF Qualifying[Head(data)]
       THEN <<[id |-> ArticleId(p.paperId, n), paper |-> Head(data)]>>
            \o FetchedArticles(Tail(data), IF p.paperId = "" THEN n + 1 ELSE n)
       ELSE FetchedArticles(Tail(data), n)

\* The updater without the filter on ids.
AppendUnique_All(prev, newArticles) == prev \o newArticles

\* The updater with the new articles put first.
AppendUnique_Prepend(prev, newArticles) ==
  LET existingIds == {prev[i].id : i \in 1..Len(prev)}
  IN SelectSeq(newArticles, LAMBDA a : a.id \notin existingIds) \o prev

\* The setArticles updater: prev followed by the articles of newArticles whose
\* id is not an id of prev.
AppendUnique(prev, newArticles) ==
  LET existingIds == {prev[i].id : i \in 1..Len(prev)}
  IN prev \o SelectSeq(newArticles, LAMBDA a : a.id \notin existingIds)

\* `${term}-${offset}`
CacheKey(term, offset) == <<term, offset>>

\* ------------------------------------------------------------- term ranking
\* likedTopics is an object: a sequence of [topic, score] in insertion order.
Min(a, b) == IF a < b THEN a ELSE b

RemoveAt(s, i) == SubSeq(s, 1, i - 1) \o SubSeq(s, i + 1, Len(s))

\* The entries left in insertion order.
SortByScore_Unsorted(entries) == entries

\* Array.prototype.sort with ([, a], [, b]) => b - a: stable, descending score.
RECURSIVE SortByScore(_)
SortByScore(entries) ==
  IF entries = <<>> THEN <<>>
  ELSE LET first == CHOOSE i \in 1..Len(entries) :
                      /\ \A j \in 1..Len(entries) : entries[j].score <= entries[i].score
                      /\ \A j \in 1..(i - 1) : entries[j].score < entries[i].score
       IN <<entries[first]>> \o SortByScore(RemoveAt(entries, first))

getRecommendedTerms(likedTopics) ==
  LET sorted == SortByScore(likedTopics)
      top == SubSeq(sorted, 1, Min(TopTopics, Len(sorted)))
      sortedTopics == [i \in 1..Len(top) |-> top[i].topic]
  IN IF Len(sortedTopics) > 0 THEN sortedTopics \o SEARCH_TERMS ELSE SEARCH_TERMS

\* --------------------------------------------------------- preference store
Contains(seq, x) == \E i \in 1..Len(seq) : seq[i] = x

\* newLikedTopics[term] = (newLikedTopics[term] || 0) + 1
BumpTopic(topics, term) ==
  IF \E i \in 1..Len(topics) : topics[i].topic = term
  THEN [i \in 1..Len(topics) |->
          IF topics[i].topic = term
          THEN [topic |-> term, score |-> topics[i].score + 1]
          ELSE topics[i]]
  ELSE Append(topics, [topic |-> term, score |-> 1])

\* `${article.title} ${article.abstract}`.toLowerCase()
ArticleText(a) == ToLowerCase(ArticleTitle(a) \o <<" ">> \o ArticleAbstract(a))

TermMatches(text, term) == Includes(text, ToLowerCase(TermChars(term)))

\* text.includes(term.toLowerCase()) for every paper an article can be mapped
\* from and every search term.
TextIncludes ==
  [name \in PaperNames |->
     [k \in 1..Len(SEARCH_TERMS) |->
        TermMatches(ArticleText([paper |-> name]), SEARCH_TERMS[k])]]

\* SEARCH_TERMS.forEach(...) from the k-th term on, for article a.
RECURSIVE ExtractTopics(_, _, _)
ExtractTopics(topics, a, k) ==
  IF k > Len(SEARCH_TERMS) THEN topics
  ELSE ExtractTopics(
         IF TextIncludes[a.paper][k]
         THEN BumpTopic(topics, SEARCH_TERMS[k]) ELSE topics,
         a, k + 1)

\* The id appended whether or not it is present.
ToggleLiked_AlwaysAppend(likedArticles, id) == Append(likedArticles, id)

\* isLiked ? list.filter((id) => id !== article.id) : [...list, article.id]
ToggleLiked(likedArticles, id) ==
  IF Contains(likedArticles, id)
  THEN SelectSeq(likedArticles, LAMBDA x : x # id)
  ELSE Append(likedArticles, id)

\* The topics extracted on an unlike too.
LikedTopicsAfter_OnUnlikeToo(prefs, a) == ExtractTopics(prefs.likedTopics, a, 1)

\* likedTopics after a click on the like button of article a.
LikedTopicsAfter(prefs, a) ==
  IF ~Contains(prefs.likedArticles, a.id)
  THEN ExtractTopics(prefs.likedTopics, a, 1)
  ELSE prefs.likedTopics

\* newPreferences of handleLike.
LikePreferences(prefs, a) ==
  [likedArticles |-> ToggleLiked(prefs.likedArticles, a.id),
   savedArticles |-> prefs.savedArticles,
   likedTopics |-> LikedTopicsAfter(prefs, a)]

\* newPreferences of handleSave.
SavePreferences(prefs, a) ==
  [likedArticles |-> prefs.likedArticles,
   savedArticles |-> ToggleLiked(prefs.savedArticles, a.id),
   likedTopics |-> prefs.likedTopics]

\* JSON.stringify: the text is kept as the value it encodes.
JSONstringify(v) == [wellFormed |-> TRUE, encodes |-> v]

\* A stored text that is not JSON: what is left of JSON.stringify(v) after a
\* truncation or an edit by another writer of the store.
Truncated(v) == [wellFormed |-> FALSE, encodes |-> v]

\* JSON.parse: the value a JSON text encodes; it throws a SyntaxError on any
\* other text.
JSONparse(text) == [threw |-> ~text.wellFormed, value |-> text.encodes]

\* getSavedArticles: the parsed snapshot of every id of savedArticles that
\* has one in the store, in the order of savedArticles (an id without a
\* snapshot maps to null, which filter(Boolean) drops); threw when a
\* JSON.parse of the map threw.
RECURSIVE getSavedArticles(_, _)
getSavedArticles(savedArticles, saved) ==
  IF savedArticles = <<>> THEN [threw |-> FALSE, list |-> <<>>]
  ELSE LET id == Head(savedArticles)
           rest == getSavedArticles(Tail(savedArticles), saved)
       IN IF id \notin DOMAIN saved THEN rest
          ELSE IF JSONparse(saved[id]).threw
          THEN [threw |-> TRUE, list |-> <<>>]
          ELSE [threw |-> rest.threw,
                list |-> IF rest.threw THEN <<>>
                         ELSE <<JSONparse(saved[id]).value>> \o rest.list]

\* ------------------------------------------------------------------- state
VARIABLES
  articles,        \* useState<Article[]>([])
  currentIndex,    \* useState(0)
  loading,         \* useState(false)
  userPreferences, \* useState<UserPreferences>
  cache,           \* useState<Map<string, Article[]>>
  usedCacheKeys,   \* useState<Set<string>>
  localStorage,    \* the browser's durable key-value store
  inflight,        \* the fetchArticles executions suspended at an await
  pendingEffects,  \* effects whose dependencies the last commit changed
  mounted,         \* the mount effects have run
  isProcessing,    \* the cooldown flag of the registered listeners
  touchStartY,     \* touchStartY of the registered listeners
  nextSynth,       \* ids synthesized so far
  fetchCalls,      \* fetchArticles calls so far
  lastData,        \* data.data handled in the last step (<<>> if none)
  lastFetched,     \* fetchedArticles computed from lastData in that step
  error,           \* an exception was thrown out of an effect or a render
  acceptedTimer,   \* the 300 ms timer of an input that changed the index is pending
  touch            \* <<y>> while a finger that went down at y is down, else <<>>

vars == << articles, currentIndex, loading, userPreferences, cache,
           usedCacheKeys, localStorage, inflight, pendingEffects, mounted,
           isProcessing, touchStartY, nextSynth, fetchCalls, lastData,
           lastFetched, error, acceptedTimer, touch >>

\* No provider response is handled in this step.
NoResponse == lastData' = <<>> /\ lastFetched' = <<>>

\* The component is mounted and no exception has removed it.
Running == mounted /\ ~error

\* The render of a commit with the given state throws: the loading screen
\* (articles.length === 0 && loading) is returned before getSavedArticles()
\* is evaluated; every other render evaluates it.
RenderThrows(renderArticles, renderLoading, renderPrefs, store) ==
  /\ ~(Len(renderArticles) = 0 /\ renderLoading)
  /\ getSavedArticles(renderPrefs.savedArticles, store.saved).threw

\* The render of the state this step commits.
Rendered ==
  error' = RenderThrows(articles', loading', userPreferences', localStorage')

EmptyMap == [k \in {} |-> <<>>]

MapSet(m, k, v) == [x \in DOMAIN m \cup {k} |-> IF x = k THEN v ELSE m[x]]

\* removeItem that removes nothing.
MapRemove_Keep(m, k) == m

MapRemove(m, k) == [x \in DOMAIN m \ {k} |-> m[x]]

DefaultPreferences ==
  [likedArticles |-> <<>>, savedArticles |-> <<>>, likedTopics |-> <<>>]

Init ==
  /\ articles = <<>>
  /\ currentIndex = 0
  /\ loading = FALSE
  /\ userPreferences = DefaultPreferences
  /\ cache = EmptyMap
  /\ usedCacheKeys = {}
  /\ localStorage = [preferences |-> <<>>, saved |-> EmptyMap, batches |-> EmptyMap]
  /\ inflight = {}
  /\ pendingEffects = {}
  /\ mounted = FALSE
  /\ isProcessing = FALSE
  /\ touchStartY = 0
  /\ nextSynth = 0
  /\ fetchCalls = 0
  /\ lastData = <<>>
  /\ lastFetched = <<>>
  /\ error = FALSE
  /\ acceptedTimer = FALSE
  /\ touch = <<>>

\* ------------------------------------------------------------ fetchArticles
\* The (term index, offset) pairs Math.random() may draw: the first MaxDraws of
\* (0, 0), (1, 0), (0, 1), (1, 1), (0, 2), ...
Draws == {<<n % 2, n \div 2>> : n \in 0..(MaxDraws - 1)}

NoKey == CacheKey("", 0)

\* The iteration with the cache lookup before the used-key test.
Iteration_CacheFirst(used, cch, cacheKey, attempts) ==
  IF cacheKey \in DOMAIN cch THEN [kind |-> "hit", attempts |-> attempts]
  ELSE IF cacheKey \in used THEN [kind |-> "used", attempts |-> attempts + 1]
  ELSE [kind |-> "await", attempts |-> attempts]

\* One iteration of the while loop with the drawn cacheKey, up to its await:
\* a used key consumes an attempt, a cached key ends the loop with the cached
\* list, any other key is sent to the provider.
Iteration(used, cch, cacheKey, attempts) ==
  IF cacheKey \in used THEN [kind |-> "used", attempts |-> attempts + 1]
  ELSE IF cacheKey \in DOMAIN cch THEN [kind |-> "hit", attempts |-> attempts]
  ELSE [kind |-> "await", attempts |-> attempts]

\* The while loop from its test to the next await: the ways it can leave the
\* synchronous part, over every draw of term and offset.  used and cch are
\* the usedCacheKeys and cache the closure captured.
RECURSIVE LoopOutcomes(_, _, _, _)
LoopOutcomes(used, cch, terms, attempts) ==
  IF ~(attempts < maxAttempts)
  THEN {[kind |-> "exit", key |-> NoKey, attempts |-> attempts]}
  ELSE UNION {
         LET cacheKey == CacheKey(terms[d[1] + 1], d[2])
             it == Iteration(used, cch, cacheKey, attempts)
         IN IF it.kind = "used"
            THEN LoopOutcomes(used, cch, terms, it.attempts)
            ELSE {[kind |-> it.kind, key |-> cacheKey, attempts |-> it.attempts]}
         : d \in Draws }

\* A call of the fetchArticles closure of a render whose state was
\* (renderLoading, renderUsed, renderCache, renderPrefs), up to its first
\* await.
FetchArticlesCall(renderLoading, renderUsed, renderCache, renderPrefs) ==
  IF renderLoading
  THEN {[kind |-> "return", key |-> NoKey, attempts |-> 0]}
  ELSE LoopOutcomes(renderUsed, renderCache,
                    getRecommendedTerms(renderPrefs.likedTopics), 0)

\* attempts++ after a provider call, without the increment.
AttemptConsumed_Not(attempts) == attempts

\* attempts++ after a provider call
AttemptConsumed(attempts) == attempts + 1

\* The finally block left out.
Finally_Skipped(isLoading) == isLoading

\* finally { setLoading(false) }: the loading flag an ending execution leaves.
Finally(isLoading) == FALSE

\* The test of the filtered batch left out.
BatchStored_Always(fetchedArticles) == TRUE

\* fetchedArticles.length > 0: the batch is kept, cached and its key marked.
BatchStored(fetchedArticles) == Len(fetchedArticles) > 0

\* The execution suspended at await fetch(url) for outcome o.  calls counts
\* its provider calls.
Execution(fid, o, renderUsed, renderCache, renderPrefs) ==
  [fid |-> fid, key |-> o.key, attempts |-> o.attempts, calls |-> 1,
   used |-> renderUsed, cch |-> renderCache,
   terms |-> getRecommendedTerms(renderPrefs.likedTopics)]

\* The threshold test with < in place of <=.
LoadMoreCondition_Strict(length, index, isLoading) ==
  length - index < LoadMoreThreshold /\ ~isLoading

\* articles.length - currentIndex <= 3 && !loading
LoadMoreCondition(length, index, isLoading) ==
  length - index <= LoadMoreThreshold /\ ~isLoading

\* The dependency arrays with loading left out of the load-more effect's.
EffectsAfterCommit_NoLoading(topicsChanged) ==
  (IF \/ currentIndex' # currentIndex
      \/ Len(articles') # Len(articles)
      \/ cache' # cache
      \/ usedCacheKeys' # usedCacheKeys
      \/ topicsChanged
   THEN {"loadMore"} ELSE {})
  \cup
  (IF currentIndex' # currentIndex \/ Len(articles') # Len(articles)
   THEN {"navigation"} ELSE {})

\* Effects to run after a commit that changed the state from the unprimed to
\* the primed values (the dependency arrays of the two effects).
EffectsAfterCommit(topicsChanged) ==
  (IF \/ currentIndex' # currentIndex
      \/ Len(articles') # Len(articles)
      \/ loading' # loading
      \/ cache' # cache
      \/ usedCacheKeys' # usedCacheKeys
      \/ topicsChanged
   THEN {"loadMore"} ELSE {})
  \cup
  (IF currentIndex' # currentIndex \/ Len(articles') # Len(articles)
   THEN {"navigation"} ELSE {})

\* The load-preferences effect: the parsed record when the store has a
\* (non-empty) text under scitok-preferences, else the state as it was.
LoadPreferences(store, prefs) ==
  IF store.preferences # <<>>
  THEN JSONparse(store.preferences[1])
  ELSE [threw |-> FALSE, value |-> prefs]

\* The mount: the load-preferences effect, the bootstrap effect and the
\* load-more effect run with the closures of the first render.
Mount ==
  /\ ~mounted /\ ~error
  /\ ~LoadPreferences(localStorage, userPreferences).threw
  /\ mounted' = TRUE
  /\ userPreferences' = LoadPreferences(localStorage, userPreferences).value
  /\ \E oa \in FetchArticlesCall(loading, usedCacheKeys, cache, userPreferences) :
       \E ob \in FetchArticlesCall(loading, usedCacheKeys, cache, userPreferences) :
         /\ oa.kind = "await" /\ ob.kind = "await"
         /\ LET a == Execution(1, oa, usedCacheKeys, cache, userPreferences)
                b == Execution(2, ob, usedCacheKeys, cache, userPreferences)
            IN inflight' =
                 {a} \cup (IF LoadMoreCondition(Len(articles), currentIndex, loading)
                           THEN {b} ELSE {})
  /\ fetchCalls' = Cardinality(inflight')
  /\ loading' = TRUE
  /\ pendingEffects' = {"loadMore"}
  /\ UNCHANGED << articles, currentIndex, cache, usedCacheKeys, localStorage,
                  isProcessing, touchStartY, nextSynth, acceptedTimer, touch >>
  /\ NoResponse
  /\ Rendered

\* The mount when JSON.parse throws in the load-preferences effect: the
\* exception leaves the effect and React removes the component tree.
MountThrows ==
  /\ ~mounted /\ ~error
  /\ LoadPreferences(localStorage, userPreferences).threw
  /\ mounted' = TRUE
  /\ error' = TRUE
  /\ UNCHANGED << articles, currentIndex, loading, userPreferences, cache,
                  usedCacheKeys, localStorage, inflight, pendingEffects,
                  isProcessing, touchStartY, nextSynth, fetchCalls,
                  acceptedTimer, touch >>
  /\ NoResponse

\* The effects after a commit: the load-more effect (a fetchArticles call of
\* the current render when the buffer runs low) and the navigation effect
\* (new listeners, with their own isProcessing and touchStartY).
RunEffects ==
  /\ Running
  /\ pendingEffects # {}
  /\ IF "navigation" \in pendingEffects
     THEN isProcessing' = FALSE /\ touchStartY' = 0
     ELSE UNCHANGED << isProcessing, touchStartY >>
  /\ IF /\ "loadMore" \in pendingEffects
        /\ LoadMoreCondition(Len(articles), currentIndex, loading)
     THEN /\ fetchCalls < MaxFetches
          /\ fetchCalls' = fetchCalls + 1
          /\ \E o \in FetchArticlesCall(loading, usedCacheKeys, cache, userPreferences) :
               /\ inflight' =
                    IF o.kind = "await"
                    THEN inflight \cup {Execution(fetchCalls + 1, o, usedCacheKeys,
                                                  cache, userPreferences)}
                    ELSE inflight
               /\ loading' = IF o.kind = "await" THEN TRUE ELSE Finally(TRUE)
               /\ articles' =
                    IF o.kind = "hit"
                    THEN AppendUnique(articles, cache[o.key])
                    ELSE articles
          /\ pendingEffects' =
               (IF loading' # loading \/ Len(articles') # Len(articles)
                THEN {"loadMore"} ELSE {})
               \cup (IF Len(articles') # Len(articles) THEN {"navigation"} ELSE {})
     ELSE /\ pendingEffects' = {}
          /\ UNCHANGED << fetchCalls, inflight, loading, articles >>
  /\ UNCHANGED << currentIndex, userPreferences, cache, usedCacheKeys,
                  localStorage, mounted, nextSynth, acceptedTimer, touch >>
  /\ NoResponse
  /\ Rendered

\* The provider call of execution p ends with outcome out; the execution runs
\* on to its next await or to its end.
ProviderReturns(p, out) ==
  /\ Running
  /\ pendingEffects = {}
  /\ p \in inflight
  /\ LET fetchedArticles ==
           IF out.ok /\ Len(out.data) > 0
           THEN FetchedArticles(out.data, nextSynth + 1)
           ELSE <<>>
         attempts == AttemptConsumed(p.attempts)
     IN /\ nextSynth' = nextSynth + (IF out.ok THEN NeedsSynth(out.data) ELSE 0)
        /\ lastData' = IF out.ok THEN out.data ELSE <<>>
        /\ lastFetched' = fetchedArticles
        /\ IF BatchStored(fetchedArticles)
           THEN /\ cache' = MapSet(cache, p.key, fetchedArticles)
                /\ usedCacheKeys' = usedCacheKeys \cup {p.key}
                /\ localStorage' =
                     [localStorage EXCEPT
                        !.batches = MapSet(@, p.key, JSONstringify(fetchedArticles))]
                /\ articles' = AppendUnique(articles, fetchedArticles)
                /\ loading' = Finally(loading)
                /\ inflight' = inflight \ {p}
           ELSE /\ UNCHANGED << cache, usedCacheKeys, localStorage >>
                /\ \E o \in LoopOutcomes(p.used, p.cch, p.terms, attempts) :
                     /\ inflight' =
                          IF o.kind = "await"
                          THEN (inflight \ {p}) \cup
                               {[p EXCEPT !.key = o.key, !.attempts = o.attempts,
                                          !.calls = @ + 1]}
                          ELSE inflight \ {p}
                     /\ loading' = IF o.kind = "await" THEN loading
                                   ELSE Finally(loading)
                     /\ articles' =
                          IF o.kind = "hit"
                          THEN AppendUnique(articles, p.cch[o.key])
                          ELSE articles
  /\ UNCHANGED << currentIndex, userPreferences, mounted, isProcessing,
                  touchStartY, fetchCalls, acceptedTimer, touch >>
  /\ pendingEffects' = EffectsAfterCommit(FALSE)
  /\ Rendered

\* The provider call of execution p ends after an exception has removed the
\* component: the execution runs on, its state updates change nothing, and a
\* kept batch is still written to the store.
OrphanReturns(p, out) ==
  /\ mounted /\ error
  /\ p \in inflight
  /\ LET fetchedArticles ==
           IF out.ok /\ Len(out.data) > 0
           THEN FetchedArticles(out.data, nextSynth + 1)
           ELSE <<>>
         attempts == AttemptConsumed(p.attempts)
     IN /\ nextSynth' = nextSynth + (IF out.ok THEN NeedsSynth(out.data) ELSE 0)
        /\ lastData' = IF out.ok THEN out.data ELSE <<>>
        /\ lastFetched' = fetchedArticles
        /\ IF BatchStored(fetchedArticles)
           THEN /\ localStorage' =
                     [localStorage EXCEPT
                        !.batches = MapSet(@, p.key, JSONstringify(fetchedArticles))]
                /\ inflight' = inflight \ {p}
           ELSE /\ UNCHANGED localStorage
                /\ \E o \in LoopOutcomes(p.used, p.cch, p.terms, attempts) :
                     inflight' =
                       IF o.kind = "await"
                       THEN (inflight \ {p}) \cup
                            {[p EXCEPT !.key = o.key, !.attempts = o.attempts,
                                       !.calls = @ + 1]}
                       ELSE inflight \ {p}
  /\ UNCHANGED << articles, currentIndex, loading, userPreferences, cache,
                  usedCacheKeys, pendingEffects, mounted, isProcessing,
                  touchStartY, fetchCalls, error, acceptedTimer, touch >>

\* --------------------------------------------------------------- navigation
\* The forward test against length in place of length - 1.
CanGoForward_OffByOne(index, length) == index < length

\* currentIndex < articles.length - 1 and currentIndex > 0
CanGoForward(index, length) == index < length - 1
CanGoBackward(index) == index > 0

\* The index after a navigation in direction dir (1 forward, -1 backward,
\* 0 neither) handled with the index and length of the current render.
Navigate(dir, index, length) ==
  IF dir > 0 /\ CanGoForward(index, length) THEN index + 1
  ELSE IF dir < 0 /\ CanGoBackward(index) THEN index - 1
  ELSE index

NavigationCommit ==
  /\ UNCHANGED << articles, loading, userPreferences, cache, usedCacheKeys,
                  localStorage, inflight, mounted, nextSynth, fetchCalls >>
  /\ NoResponse
  /\ pendingEffects' = EffectsAfterCommit(FALSE)
  /\ Rendered

Sign(n) == IF n > 0 THEN 1 ELSE IF n < 0 THEN -1 ELSE 0

\* The flag set only by an input that changed the index.
CooldownStarted_OnChange(changed) == changed

\* isProcessing = true, before the branches on the direction: the flag a
\* handled wheel or key input leaves, whether or not it changed the index.
CooldownStarted(changed) == TRUE

DeltaYs == {-100, 0, 100}

handleWheel(deltaY) ==
  /\ Running /\ pendingEffects = {}
  /\ ~isProcessing
  /\ currentIndex' = Navigate(Sign(deltaY), currentIndex, Len(articles))
  /\ isProcessing' = CooldownStarted(currentIndex' # currentIndex)
  /\ acceptedTimer' = (acceptedTimer \/ currentIndex' # currentIndex)
  /\ UNCHANGED << touchStartY, touch >>
  /\ NavigationCommit

Keys == {"ArrowDown", "ArrowUp", "Enter"}

handleKeyDown(key) ==
  /\ Running /\ pendingEffects = {}
  /\ ~isProcessing
  /\ currentIndex' =
       Navigate(IF key = "ArrowDown" THEN 1 ELSE IF key = "ArrowUp" THEN -1 ELSE 0,
                currentIndex, Len(articles))
  /\ isProcessing' = CooldownStarted(currentIndex' # currentIndex)
  /\ acceptedTimer' = (acceptedTimer \/ currentIndex' # currentIndex)
  /\ UNCHANGED << touchStartY, touch >>
  /\ NavigationCommit

ClientYs == {0, 50, 101}

\* A finger goes down at clientY.
handleTouchStart(clientY) ==
  /\ Running /\ pendingEffects = {}
  /\ touch = <<>>
  /\ touch' = <<clientY>>
  /\ touchStartY' = clientY
  /\ UNCHANGED << articles, currentIndex, loading, userPreferences, cache,
                  usedCacheKeys, localStorage, inflight, pendingEffects, mounted,
                  isProcessing, nextSynth, fetchCalls, error, acceptedTimer >>
  /\ NoResponse

Abs(n) == IF n < 0 THEN -n ELSE n

\* Math.abs(diff) > 50
IsSwipe(diff) == Abs(diff) > TouchThreshold

\* handleTouchEnd at touchEndY with the touchStartY and isProcessing of the
\* registered listeners: the index and the flag it leaves.
TouchEnd(startY, touchEndY, index, length, processing) ==
  LET diff == startY - touchEndY IN
  IF processing \/ ~IsSwipe(diff)
  THEN [index |-> index, processing |-> processing]
  ELSE [index |-> Navigate(Sign(diff), index, length), processing |-> TRUE]

\* The finger that is down is lifted at clientY.
handleTouchEnd(clientY) ==
  /\ Running /\ pendingEffects = {}
  /\ touch # <<>>
  /\ touch' = <<>>
  /\ \E r \in {TouchEnd(touchStartY, clientY, currentIndex, Len(articles),
                         isProcessing)} :
       /\ isProcessing' = r.processing
       /\ currentIndex' = r.index
       /\ acceptedTimer' = (acceptedTimer \/ r.index # currentIndex)
  /\ UNCHANGED touchStartY
  /\ NavigationCommit

\* setTimeout(() => { isProcessing = false }, 300) of the registered listeners
\* (a timer set earlier, by an input that changed the index, fires first)
CooldownExpires ==
  /\ Running /\ pendingEffects = {}
  /\ isProcessing
  /\ ~acceptedTimer
  /\ isProcessing' = FALSE
  /\ UNCHANGED << articles, currentIndex, loading, userPreferences, cache,
                  usedCacheKeys, localStorage, inflight, pendingEffects, mounted,
                  touchStartY, nextSynth, fetchCalls, error, acceptedTimer,
                  touch >>
  /\ NoResponse

\* The timer of an input that changed the index fires: the index change
\* re-ran the navigation effect, so the isProcessing it clears is that of
\* listeners already removed.
AcceptedCooldownExpires ==
  /\ Running /\ pendingEffects = {}
  /\ acceptedTimer
  /\ acceptedTimer' = FALSE
  /\ UNCHANGED << articles, currentIndex, loading, userPreferences, cache,
                  usedCacheKeys, localStorage, inflight, pendingEffects, mounted,
                  isProcessing, touchStartY, nextSynth, fetchCalls, error,
                  touch >>
  /\ NoResponse

goToNext ==
  /\ Running /\ pendingEffects = {}
  /\ currentIndex' = Navigate(1, currentIndex, Len(articles))
  /\ currentIndex' # currentIndex
  /\ UNCHANGED << isProcessing, touchStartY, acceptedTimer, touch >>
  /\ NavigationCommit

goToPrevious ==
  /\ Running /\ pendingEffects = {}
  /\ currentIndex' = Navigate(-1, currentIndex, Len(articles))
  /\ currentIndex' # currentIndex
  /\ UNCHANGED << isProcessing, touchStartY, acceptedTimer, touch >>
  /\ NavigationCommit

\* -------------------------------------------------------------- like / save
\* savePreferences
savePreferences(newPreferences) ==
  /\ userPreferences' = newPreferences
  /\ localStorage' =
       [localStorage EXCEPT !.preferences = <<JSONstringify(newPreferences)>>]

\* A click on the like button of the i-th article of the feed.
handleLike(i) ==
  /\ Running /\ pendingEffects = {}
  /\ i \in 1..Len(articles)
  /\ \E newPreferences \in {LikePreferences(userPreferences, articles[i])} :
       /\ Len(newPreferences.likedArticles)
            + Len(newPreferences.savedArticles) <= MaxMarked
       /\ \A t \in 1..Len(newPreferences.likedTopics) :
            newPreferences.likedTopics[t].score <= MaxScore
       /\ savePreferences(newPreferences)
  /\ pendingEffects' = {"loadMore"}
  /\ UNCHANGED << articles, currentIndex, loading, cache, usedCacheKeys,
                  inflight, mounted, isProcessing, touchStartY, nextSynth,
                  fetchCalls, acceptedTimer, touch >>
  /\ NoResponse
  /\ Rendered

\* handleSave(article)
handleSaveOf(article) ==
  /\ Running /\ pendingEffects = {}
  /\ \E newPreferences \in {SavePreferences(userPreferences, article)} :
       LET isSaved == Contains(userPreferences.savedArticles, article.id)
       IN /\ Len(newPreferences.likedArticles)
               + Len(newPreferences.savedArticles) <= MaxMarked
          /\ userPreferences' = newPreferences
          /\ localStorage' =
               [localStorage EXCEPT
                  !.preferences = <<JSONstringify(newPreferences)>>,
                  !.saved = IF ~isSaved
                            THEN MapSet(@, article.id, JSONstringify(article))
                            ELSE MapRemove(@, article.id)]
  /\ UNCHANGED << articles, currentIndex, loading, cache, usedCacheKeys,
                  inflight, pendingEffects, mounted, isProcessing, touchStartY,
                  nextSynth, fetchCalls, acceptedTimer, touch >>
  /\ NoResponse
  /\ Rendered

\* A click on the save button of the i-th article of the feed.
handleSave(i) ==
  /\ i \in 1..Len(articles)
  /\ handleSaveOf(articles[i])

\* A click on the remove button of the j-th article of the saved list, which
\* the render computed with getSavedArticles().
handleSaveListed(j) ==
  /\ Running
  /\ ~(Len(articles) = 0 /\ loading)
  /\ \E r \in {getSavedArticles(userPreferences.savedArticles, localStorage.saved)} :
       /\ j \in 1..Len(r.list)
       /\ handleSaveOf(r.list[j])

\* The page is reloaded: a new session starts with the durable store of the
\* old one; its executions and timers are gone.
Reload ==
  /\ mounted
  /\ articles' = <<>>
  /\ currentIndex' = 0
  /\ loading' = FALSE
  /\ userPreferences' = DefaultPreferences
  /\ cache' = EmptyMap
  /\ usedCacheKeys' = {}
  /\ inflight' = {}
  /\ pendingEffects' = {}
  /\ mounted' = FALSE
  /\ isProcessing' = FALSE
  /\ touchStartY' = 0
  /\ fetchCalls' = 0
  /\ error' = FALSE
  /\ acceptedTimer' = FALSE
  /\ touch' = <<>>
  /\ UNCHANGED << localStorage, nextSynth >>
  /\ NoResponse

\* ----------------------------------------------------------- specifications
\* The feed: mount, fetches under every provider outcome, effects, and the
\* navigation buttons.
Next ==
  \/ Mount
  \/ RunEffects
  \/ \E p \in inflight : \E out \in ProviderOutcomes : ProviderReturns(p, out)
  \/ goToNext
  \/ goToPrevious

Spec == Init /\ [][Next]_vars

\* The feed when every provider call returns or fails and the effects of a
\* commit run: the continuation of a settled call is run by the event loop
\* however often input handlers run in between.
\* The provider fails, returns nothing or returns ai, bio.
FairOutcomes ==
  { [ok |-> FALSE, data |-> <<>>],
    [ok |-> TRUE, data |-> <<>>],
    [ok |-> TRUE, data |-> <<"ai", "bio">>] }

ProviderStep(fid) ==
  \E p \in inflight :
    /\ p.fid = fid
    /\ \E out \in FairOutcomes : ProviderReturns(p, out)

FairNext ==
  \/ Mount
  \/ RunEffects
  \/ \E fid \in 1..MaxFetches : ProviderStep(fid)
  \/ goToNext
  \/ goToPrevious

FairSpec ==
  /\ Init /\ [][FairNext]_vars
  /\ WF_vars(RunEffects)
  /\ \A fid \in 1..MaxFetches : SF_vars(ProviderStep(fid))

\* Navigation: every input channel and the cooldown, with fetches whose
\* provider fails or returns a batch of three articles.
NavOutcomes ==
  { [ok |-> FALSE, data |-> <<>>],
    [ok |-> TRUE, data |-> <<"brain", "short", "many", "brief", "bio">>] }

NavNext ==
  \/ Mount
  \/ RunEffects
  \/ \E p \in inflight : \E out \in NavOutcomes : ProviderReturns(p, out)
  \/ \E deltaY \in DeltaYs : handleWheel(deltaY)
  \/ \E key \in Keys : handleKeyDown(key)
  \/ \E clientY \in ClientYs : handleTouchStart(clientY)
  \/ \E clientY \in ClientYs : handleTouchEnd(clientY)
  \/ CooldownExpires
  \/ AcceptedCooldownExpires
  \/ goToNext
  \/ goToPrevious

NavSpec == Init /\ [][NavNext]_vars

\* The preference store, on a feed of four articles that Spec reaches (mount
\* with the keys science-0 and biology-0; the first call gets brain, short,
\* many, brief, bio; the load-more effect starts a third call; the second call
\* gets ai, bio; the third call fails three times): likes and saves of the
\* loaded articles, the provider not being called again.
PrefsFeedFirst == <<"brain", "short", "many", "brief", "bio">>
PrefsFeedSecond == <<"ai", "bio">>

PrefsInit ==
  LET first == FetchedArticles(PrefsFeedFirst, 1)
      second == FetchedArticles(PrefsFeedSecond, 1)
      k1 == CacheKey(SEARCH_TERMS[1], 0)
      k2 == CacheKey(SEARCH_TERMS[2], 0)
  IN
  /\ articles = AppendUnique(first, second)
  /\ currentIndex = 0
  /\ loading = FALSE
  /\ userPreferences = DefaultPreferences
  /\ cache = MapSet(MapSet(EmptyMap, k1, first), k2, second)
  /\ usedCacheKeys = {k1, k2}
  /\ localStorage =
       [preferences |-> <<>>, saved |-> EmptyMap,
        batches |-> MapSet(MapSet(EmptyMap, k1, JSONstringify(first)),
                           k2, JSONstringify(second))]
  /\ inflight = {}
  /\ pendingEffects = {}
  /\ mounted = TRUE
  /\ isProcessing = FALSE
  /\ touchStartY = 0
  /\ nextSynth = 0
  /\ fetchCalls = 3
  /\ lastData = <<>>
  /\ lastFetched = <<>>
  /\ error = FALSE
  /\ acceptedTimer = FALSE
  /\ touch = <<>>

PrefsNext ==
  \/ RunEffects
  \/ \E i \in 1..Len(articles) : handleLike(i)
  \/ \E i \in 1..Len(articles) : handleSave(i)

PrefsSpec == PrefsInit /\ [][PrefsNext]_vars

\* Sessions: saves from the feed and from the saved list, and page reloads,
\* starting with an empty durable store; the provider fails or returns ai, bio.
SessionOutcomes ==
  { [ok |-> FALSE, data |-> <<>>],
    [ok |-> TRUE, data |-> <<"ai", "bio">>] }

SessionNext ==
  \/ Mount
  \/ RunEffects
  \/ \E p \in inflight : \E out \in SessionOutcomes : ProviderReturns(p, out)
  \/ \E i \in 1..Len(articles) : handleSave(i)
  \/ \E j \in 1..MaxMarked : handleSaveListed(j)
  \/ Reload

SessionSpec == Init /\ [][SessionNext]_vars

\* The durable stores a session may start with: the preferences record is
\* absent, written by savePreferences or not JSON; each of the two articles
\* ai and bio has no snapshot, the snapshot handleSave wrote or a text that is
\* not JSON.
StoredArticles == FetchedArticles(<<"ai", "bio">>, 1)

StoredPreferences ==
  {<<>>} \cup
  UNION { {<<JSONstringify(prefs)>>, <<Truncated(prefs)>>} :
          prefs \in { [likedArticles |-> <<>>, savedArticles |-> ids,
                       likedTopics |-> <<>>] :
                      ids \in { <<>>, <<StoredArticles[1].id>>,
                                <<StoredArticles[1].id, StoredArticles[2].id>> } } }

StoredSnapshots ==
  { [id \in {StoredArticles[k].id : k \in present} |->
       LET k == CHOOSE k \in present : StoredArticles[k].id = id
       IN IF k \in broken THEN Truncated(StoredArticles[k])
          ELSE JSONstringify(StoredArticles[k])] :
    present \in SUBSET {1, 2}, broken \in SUBSET {1, 2} }

DurableStores ==
  { [preferences |-> pr, saved |-> sn, batches |-> EmptyMap] :
    pr \in StoredPreferences, sn \in StoredSnapshots }

StoreInit ==
  /\ articles = <<>>
  /\ currentIndex = 0
  /\ loading = FALSE
  /\ userPreferences = DefaultPreferences
  /\ cache = EmptyMap
  /\ usedCacheKeys = {}
  /\ localStorage \in DurableStores
  /\ inflight = {}
  /\ pendingEffects = {}
  /\ mounted = FALSE
  /\ isProcessing = FALSE
  /\ touchStartY = 0
  /\ nextSynth = 0
  /\ fetchCalls = 0
  /\ lastData = <<>>
  /\ lastFetched = <<>>
  /\ error = FALSE
  /\ acceptedTimer = FALSE
  /\ touch = <<>>

StoreNext ==
  \/ Mount
  \/ MountThrows
  \/ RunEffects
  \/ \E p \in inflight : \E out \in SessionOutcomes : ProviderReturns(p, out)
  \/ \E p \in inflight : \E out \in SessionOutcomes : OrphanReturns(p, out)
  \/ \E i \in 1..Len(articles) : handleSave(i)
  \/ \E j \in 1..MaxMarked : handleSaveListed(j)
  \/ Reload

StoreSpec == StoreInit /\ [][StoreNext]_vars

\* ------------------------------------------------------------------ claims
Max(a, b) == IF a > b THEN a ELSE b

\* C1: in every reachable state, whatever wheel, key, touch and button inputs
\* and fetch completions came before, 0 <= currentIndex <= max(0,
\* articles.length - 1), so currentIndex is 0 while the buffer is empty.
C1_IndexInRange ==
  /\ currentIndex >= 0
  /\ currentIndex <= Max(0, Len(articles) - 1)

\* A forward input was handled at the last of at least three articles: the
\* cooldown started and the index stayed.
C1_Witness ==
  /\ isProcessing
  /\ Len(articles) >= 3
  /\ currentIndex = Len(articles) - 1

\* C2: in every reachable state no two elements of the buffer share an id,
\* whatever the provider returned, a batch with the same id twice included.
C2_NoDuplicateIds ==
  \A i \in 1..Len(articles) : \A j \in 1..Len(articles) :
    i # j => articles[i].id # articles[j].id

\* C3: in every reachable state at most one fetchArticles execution is
\* between its start and its finally block.
C3_AtMostOneInFlight == Cardinality(inflight) <= 1

\* C4: a fetchArticles call made while another execution is in flight returns
\* at once: it starts no execution (no provider call) and leaves the buffer,
\* the cache and the used keys as they were.
C4_CallWhileInFlightReturns ==
  [][ (fetchCalls' > fetchCalls /\ inflight # {})
        => /\ inflight' = inflight
           /\ articles' = articles
           /\ cache' = cache
           /\ usedCacheKeys' = usedCacheKeys ]_vars

\* C5: a key that is in usedCacheKeys when an execution draws it is never
\* sent to the provider: no execution comes to await a key of usedCacheKeys.
C5_UsedKeyNeverSelected ==
  [][ \A p \in inflight' : p \notin inflight => p.key \notin usedCacheKeys ]_vars

\* The ids of a sequence of ids.
IdsOf(seq) == {seq[i] : i \in 1..Len(seq)}

\* C6: for every article of the feed and every preference state reached, two
\* clicks on its like button leave the membership of every id in
\* likedArticles as it was.
C6_ToggleLikeTwice ==
  \A i \in 1..Len(articles) :
    \A once \in {LikePreferences(userPreferences, articles[i])} :
    LET twice == LikePreferences(once, articles[i])
    IN /\ IdsOf(twice.likedArticles) = IdsOf(userPreferences.likedArticles)
       /\ (articles[i].id \in IdsOf(once.likedArticles))
            = (articles[i].id \notin IdsOf(userPreferences.likedArticles))

\* An article was liked and unliked again: no article is liked, and a topic
\* has a score.
C6_Witness ==
  /\ userPreferences.likedArticles = <<>>
  /\ userPreferences.likedTopics # <<>>

\* likedTopics[term] || 0
Score(topics, term) ==
  IF \E i \in 1..Len(topics) : topics[i].topic = term
  THEN topics[CHOOSE i \in 1..Len(topics) : topics[i].topic = term].score
  ELSE 0

TopicsOf(topics) == {topics[i].topic : i \in 1..Len(topics)}

\* The effect of a click on the like button of every article of the feed, in
\* the preference state reached.
C7_LikeIncrements ==
  \A i \in 1..Len(articles) :
    \A after \in {LikePreferences(userPreferences, articles[i]).likedTopics} :
    LET a == articles[i]
        before == userPreferences.likedTopics
    IN IF a.id \notin IdsOf(userPreferences.likedArticles)
       THEN /\ \A k \in 1..Len(SEARCH_TERMS) :
                 Score(after, SEARCH_TERMS[k]) =
                   Score(before, SEARCH_TERMS[k])
                   + (IF TextIncludes[a.paper][k] THEN 1 ELSE 0)
            /\ TopicsOf(after) \subseteq TopicsOf(before) \cup IdsOf(SEARCH_TERMS)
            /\ Len(after) = Cardinality(TopicsOf(after))
       ELSE after = before

\* C7: a click on the like button of an article not yet liked adds exactly 1
\* to the score of every search term its lowercased text includes and
\* changes no other score; a click on a liked article changes no score;
\* scores change only when an article is added to likedArticles, and no
\* score ever decreases.
C7_TopicScores ==
  /\ []C7_LikeIncrements
  /\ [][ /\ \A t \in TopicsOf(userPreferences.likedTopics) :
              Score(userPreferences'.likedTopics, t)
                >= Score(userPreferences.likedTopics, t)
         /\ userPreferences'.likedTopics # userPreferences.likedTopics
              => Len(userPreferences'.likedArticles)
                   = Len(userPreferences.likedArticles) + 1 ]_vars

\* The article whose text contains "ai" and "data" was liked and unliked:
\* both scores are 1.
C7_Witness ==
  /\ userPreferences.likedArticles = <<>>
  /\ Score(userPreferences.likedTopics, "ai") = 1
  /\ Score(userPreferences.likedTopics, "data") = 1
  /\ Len(userPreferences.likedTopics) = 2

\* C8: getRecommendedTerms() is the at most 5 highest-scoring topics of
\* likedTopics in descending score order, followed by the 15 search terms in
\* their order; it is the 15 search terms when likedTopics is empty, and it
\* begins with ai, biology when likedTopics is {ai: 3, biology: 1}.
C8_RankedTerms ==
  \A t \in {getRecommendedTerms(userPreferences.likedTopics)} :
  LET topics == userPreferences.likedTopics
      n == Len(t) - Len(SEARCH_TERMS)
  IN /\ Len(SEARCH_TERMS) = 15
     /\ n = Min(5, Len(topics))
     /\ SubSeq(t, n + 1, Len(t)) = SEARCH_TERMS
     /\ \A i \in 1..n : t[i] \in TopicsOf(topics)
     /\ \A i \in 1..n : \A j \in 1..n :
          i < j => /\ t[i] # t[j]
                   /\ Score(topics, t[i]) >= Score(topics, t[j])
     /\ \A k \in 1..Len(topics) :
          topics[k].topic \notin {t[i] : i \in 1..n}
            => \A i \in 1..n : topics[k].score <= Score(topics, t[i])
     /\ (topics = <<>> => t = SEARCH_TERMS)
     /\ (Len(topics) = 2 /\ Score(topics, "ai") = 3 /\ Score(topics, "biology") = 1
           => t[1] = "ai" /\ t[2] = "biology")

\* likedTopics is {biology: 1, ai: 3}, biology having been liked first.
C8_Witness ==
  /\ Len(userPreferences.likedTopics) = 2
  /\ userPreferences.likedTopics[1] = [topic |-> "biology", score |-> 1]
  /\ userPreferences.likedTopics[2] = [topic |-> "ai", score |-> 3]

\* A paper with a non-empty title and an abstract of more than 100 characters.
HasTitleAndLongAbstract(name) ==
  /\ Len(Paper(name).title) >= 1
  /\ Len(Paper(name).abstract) >= 101

\* C9: the articles computed from a provider response are exactly its papers
\* with a non-empty title and an abstract of more than 100 characters, in the
\* provider's order, and every article of the cache and of the buffer is such
\* a paper.
C9_FilteredResponse ==
  /\ LET q == {i \in 1..Len(lastData) : HasTitleAndLongAbstract(lastData[i])}
     IN /\ Len(lastFetched) = Cardinality(q)
        /\ \A j \in 1..Len(lastFetched) :
             \E i \in q : /\ Cardinality({k \in q : k < i}) = j - 1
                          /\ lastFetched[j].paper = lastData[i]
  /\ \A i \in 1..Len(articles) : HasTitleAndLongAbstract(articles[i].paper)
  /\ \A key \in DOMAIN cache :
       \A i \in 1..Len(cache[key]) : HasTitleAndLongAbstract(cache[key][i].paper)

\* The provider returned 5 papers, 2 of them with an abstract under 100
\* characters: 3 articles were computed.
C9_Witness ==
  /\ lastData = <<"brain", "short", "many", "brief", "bio">>
  /\ Len(lastFetched) = 3

StoredSavedArticles ==
  IF localStorage.preferences = <<>> THEN <<>>
  ELSE localStorage.preferences[1].encodes.savedArticles

\* C11: after every sequence of saves, unsaves and page reloads, the ids that
\* have a snapshot in the store are the ids of the stored savedArticles; in
\* a mounted session these are the savedArticles in memory, and
\* getSavedArticles() returns one article per saved id, in order and with that
\* id, whether or not the article is in the buffer.
C11_SavedSnapshots ==
  /\ DOMAIN localStorage.saved = IdsOf(StoredSavedArticles)
  /\ Running =>
       /\ userPreferences.savedArticles = StoredSavedArticles
       /\ \A r \in {getSavedArticles(userPreferences.savedArticles,
                                     localStorage.saved)} :
            /\ ~r.threw
            /\ Len(r.list) = Len(userPreferences.savedArticles)
            /\ \A k \in 1..Len(r.list) :
                 /\ r.list[k].id = userPreferences.savedArticles[k]
                 /\ Qualifying[r.list[k].paper]
  /\ ~error

\* A session after a reload: two articles are saved and the buffer is empty.
C11_Witness ==
  /\ Running
  /\ articles = <<>>
  /\ Len(userPreferences.savedArticles) = 2
  /\ Len(getSavedArticles(userPreferences.savedArticles,
                          localStorage.saved).list) = 2

\* C12: the mount never fails: it reaches no error state, and when the
\* preferences record is absent or its text is not JSON the preferences of
\* the mounted session are the default, all-empty record.
C12_LoadNeverFails ==
  [][ (~mounted /\ mounted') =>
        /\ ~error'
        /\ (\/ localStorage.preferences = <<>>
            \/ ~localStorage.preferences[1].wellFormed)
             => userPreferences' = DefaultPreferences ]_vars

\* The saved ids whose snapshot is present and is JSON.
Readable(savedArticles, saved) ==
  SelectSeq(savedArticles,
            LAMBDA id : id \in DOMAIN saved /\ saved[id].wellFormed)

\* C13: getSavedArticles() never throws: it returns the snapshots of the
\* saved ids whose snapshot is present and parsable, in order, and skips the
\* others.
C13_ListSavedNeverThrows ==
  \A r \in {getSavedArticles(userPreferences.savedArticles, localStorage.saved)} :
    LET ids == Readable(userPreferences.savedArticles, localStorage.saved)
    IN /\ ~r.threw
       /\ Len(r.list) = Len(ids)
       /\ \A k \in 1..Len(ids) : r.list[k] = localStorage.saved[ids[k]].encodes

\* The execution of inflight with the given fid has ended in this step.
Ended(fid) ==
  /\ \E p \in inflight : p.fid = fid
  /\ ~\E q \in inflight' : q.fid = fid

\* C14: an execution contacts the provider at most 3 times: it awaits a
\* call only with fewer than 3 attempts consumed, a drawn key of usedCacheKeys
\* consumes an attempt, and every provider call that returns, whether it
\* failed, returned nothing or returned a batch, ends the execution or
\* leaves it awaiting its next call with at least one more attempt consumed.
C14_AtMostThreeAttempts ==
  /\ [](/\ \A p \in inflight :
             /\ p.calls <= maxAttempts
             /\ p.attempts < maxAttempts
             /\ p.calls <= p.attempts + 1
        /\ \A key \in usedCacheKeys : \A a \in 0..(maxAttempts - 1) :
             Iteration(usedCacheKeys, cache, key, a)
               = [kind |-> "used", attempts |-> a + 1])
  /\ [][ \A p \in inflight : p \notin inflight' =>
            \/ Ended(p.fid)
            \/ \E q \in inflight' :
                 /\ q.fid = p.fid
                 /\ q.calls = p.calls + 1
                 /\ q.attempts >= p.attempts + 1 ]_vars

\* An execution awaits its third provider call, and an execution has
\* consumed an attempt on a used key.
C14_Witness ==
  /\ \E p \in inflight : p.calls = maxAttempts
  /\ \E q \in inflight : q.attempts >= q.calls

\* C15: loading = true always leads to loading = false, when every provider
\* call returns or fails.
C15_NoLockout == loading ~> ~loading

\* Two of three executions have ended without a batch, the second of them
\* last: loading is false again.
C15_Witness ==
  /\ Running
  /\ fetchCalls = 3
  /\ \A p \in inflight : p.fid # 2
  /\ Cardinality(inflight) = 1
  /\ articles = <<>>
  /\ ~loading

\* C16: a drawn key that has a cache entry ends the loop with the cached
\* list (a hit), whatever the attempts consumed so far, and consumes none.
C16_CacheHit ==
  \A d \in Draws :
    LET terms == getRecommendedTerms(userPreferences.likedTopics)
        cacheKey == CacheKey(terms[d[1] + 1], d[2])
    IN cacheKey \in DOMAIN cache =>
         \A a \in 0..(maxAttempts - 1) :
           Iteration(usedCacheKeys, cache, cacheKey, a)
             = [kind |-> "hit", attempts |-> a]

\* C17: while the 300 ms timer of an input that changed the index is
\* pending, no wheel, key or touch input (a step that starts a cooldown)
\* changes currentIndex.
C17_SharedCooldown ==
  [][ (acceptedTimer /\ ~isProcessing /\ isProcessing')
        => currentIndex' = currentIndex ]_vars

\* C18: while a finger is down, lifting it at most 50 units from where it
\* went down changes neither currentIndex nor the cooldown flag.
C18_SmallTouchIgnored ==
  touch # <<>> =>
    \A clientY \in ClientYs :
      Abs(touch[1] - clientY) <= TouchThreshold =>
        TouchEnd(touchStartY, clientY, currentIndex, Len(articles), isProcessing)
          = [index |-> currentIndex, processing |-> isProcessing]

\* C19: a step in which an execution ends without a batch, or in which a call
\* uses up its attempts before any provider call, leaves the buffer, the
\* cache, the used keys and the store as they were, sets loading to false
\* and reaches no error state.
C19_ExhaustedLeavesState ==
  [][ (\/ (\E p \in inflight : Ended(p.fid)) /\ lastFetched' = <<>>
       \/ fetchCalls' = fetchCalls + 1 /\ inflight' = inflight)
        => /\ articles' = articles
           /\ cache' = cache
           /\ usedCacheKeys' = usedCacheKeys
           /\ localStorage' = localStorage
           /\ currentIndex' = currentIndex
           /\ userPreferences' = userPreferences
           /\ loading' = FALSE
           /\ ~error' ]_vars

\* One execution of the mount has ended without a batch while the other is
\* still in flight.
C19_Witness ==
  /\ Running
  /\ fetchCalls = 2
  /\ Cardinality(inflight) = 1
  /\ articles = <<>>
  /\ ~loading

\* C20: every step keeps the buffer as a prefix of the new buffer, and what
\* it appends is the batch of the step, in the batch's order, without the
\* articles whose id was already in the buffer.
C20_AppendOnly ==
  [][ /\ Len(articles') >= Len(articles)
      /\ SubSeq(articles', 1, Len(articles)) = articles
      /\ SubSeq(articles', Len(articles) + 1, Len(articles'))
           = SelectSeq(lastFetched',
                       LAMBDA a : a.id \notin {articles[i].id : i \in 1..Len(articles)})
    ]_vars

\* The batch ai, bio was applied to the buffer brain, many, bio: ai alone was
\* appended.
C20_Witness ==
  /\ lastData = <<"ai", "bio">>
  /\ Len(articles) = 4
  /\ articles[1].paper = "brain"
  /\ articles[4].paper = "ai"

\* The batches a provider response may be mapped to in this state, and the
\* batches the cache holds.
Batches ==
  {FetchedArticles(r, nextSynth + 1) : r \in Responses}
    \cup {cache[k] : k \in DOMAIN cache}

\* C21: applying a batch to the buffer a second time leaves the buffer as
\* the first application left it, for the buffer of every reachable state and
\* every batch; and a step whose batch is one a cache entry holds (a batch
\* that was applied before) leaves the buffer as it was.
C21_ApplyTwice ==
  /\ [](\A b \in Batches :
          \A once \in {AppendUnique(articles, b)} :
            AppendUnique(once, b) = once)
  /\ [][ (lastFetched' # <<>> /\ \E k \in DOMAIN cache : cache[k] = lastFetched')
           => articles' = articles ]_vars

\* The batch of the last step was already held by the cache under another
\* key: the same response reached two executions.
C21_Witness ==
  /\ lastFetched # <<>>
  /\ \E k1, k2 \in DOMAIN cache :
       k1 # k2 /\ cache[k1] = lastFetched /\ cache[k2] = lastFetched

\* C22: in every step of a session, every key that has a cache entry keeps
\* that entry with the same value, and every key of usedCacheKeys stays in
\* usedCacheKeys.
C22_WriteOnce ==
  [][ /\ \A k \in DOMAIN cache : k \in DOMAIN cache' /\ cache'[k] = cache[k]
      /\ usedCacheKeys \subseteq usedCacheKeys' ]_vars

\* The keys a loop with the given terms may draw.
DrawnKeys(terms) == {CacheKey(terms[d[1] + 1], d[2]) : d \in Draws}

\* C23: every key with a cache entry is in usedCacheKeys, in the current
\* state and in the snapshot of every execution, so no iteration of the loop,
\* of a new call or of an execution in flight, ends with a cache hit.
C23_CacheNeverAdopted ==
  /\ DOMAIN cache \subseteq usedCacheKeys
  /\ \A key \in DrawnKeys(getRecommendedTerms(userPreferences.likedTopics)) :
       \A a \in 0..(maxAttempts - 1) :
         Iteration(usedCacheKeys, cache, key, a).kind # "hit"
  /\ \A p \in inflight :
       /\ DOMAIN p.cch \subseteq p.used
       /\ \A key \in DrawnKeys(p.terms) : \A a \in 0..(maxAttempts - 1) :
            Iteration(p.used, p.cch, key, a).kind # "hit"

\* An execution whose snapshot has a cache entry drew the key of that entry:
\* the draw consumed an attempt and the execution went on to the provider.
C23_Witness ==
  \E p \in inflight :
    /\ p.cch # EmptyMap
    /\ p.used \subseteq DOMAIN p.cch
    /\ p.attempts >= p.calls
    /\ DrawnKeys(p.terms) \cap DOMAIN p.cch # {}

\* The load-more effect is to run on a render that passes its test.
FetchDue ==
  /\ Running
  /\ "loadMore" \in pendingEffects
  /\ LoadMoreCondition(Len(articles), currentIndex, loading)

\* C24: a step that brings loading back to false while articles.length -
\* currentIndex <= 3 holds leaves the load-more effect to run; the effect,
\* run on such a render, calls fetchArticles, and no input step comes in
\* between.  So, while the provider gives no batch (the buffer stays empty),
\* fetchArticles is called again after every fetch that ends: the number of
\* calls reaches MaxFetches and one more call is then due.
C24_Reissued ==
  /\ [][ /\ (loading /\ ~loading'
              /\ LoadMoreCondition(Len(articles'), currentIndex', loading'))
             => "loadMore" \in pendingEffects'
         /\ FetchDue
             => /\ fetchCalls' = fetchCalls + 1
                /\ currentIndex' = currentIndex
                /\ isProcessing' = isProcessing ]_vars
  /\ mounted ~> (articles # <<>> \/ (fetchCalls = MaxFetches /\ FetchDue))

\* MaxFetches calls were made, every provider call failed or returned
\* nothing, the last execution to end has set loading to false and the
\* load-more effect is to run again.
C24_Witness ==
  /\ FetchDue
  /\ fetchCalls = MaxFetches
  /\ articles = <<>>
  /\ cache = EmptyMap
  /\ ~loading

\* A wheel or key input is handled in this step.
WheelOrKeyHandled ==
  \/ \E deltaY \in DeltaYs : handleWheel(deltaY)
  \/ \E key \in Keys : handleKeyDown(key)

\* C25: a handled wheel or key input starts the cooldown also when it leaves
\* currentIndex as it was, and then the listeners stay registered; while the
\* flag of the registered listeners is set no wheel or key input is handled
\* and a touch end changes nothing; the flag is cleared only by its timer or
\* by a re-registration; an input that changes currentIndex leaves the
\* navigation effect to run, and that effect registers listeners whose flag
\* is inactive.
C25_CooldownOfListeners ==
  [][ /\ WheelOrKeyHandled => (~isProcessing /\ isProcessing')
      /\ (WheelOrKeyHandled /\ currentIndex' = currentIndex)
           => "navigation" \notin pendingEffects'
      /\ \A clientY \in ClientYs :
           (isProcessing /\ handleTouchEnd(clientY))
             => (isProcessing' /\ currentIndex' = currentIndex)
      /\ (isProcessing /\ ~isProcessing')
           => (CooldownExpires \/ "navigation" \in pendingEffects)
      /\ ((WheelOrKeyHandled \/ \E clientY \in ClientYs : handleTouchEnd(clientY))
            /\ currentIndex' # currentIndex)
           => "navigation" \in pendingEffects'
      /\ "navigation" \in pendingEffects
           => (~isProcessing' /\ touchStartY' = 0) ]_vars

\* At the last article of a buffer of two or more, the cooldown of the
\* registered listeners is active although no touch was started on them: a
\* wheel or key input that changed no index started it; and a finger is down,
\* whose lifting will be ignored.
C25_Witness ==
  /\ Running /\ pendingEffects = {}
  /\ isProcessing
  /\ touchStartY = 0
  /\ currentIndex > 0
  /\ currentIndex = Len(articles) - 1
  /\ touch # <<>>

====
